---- MODULE Spec2Model ----
(***************************************************************************)
(* Model of the flight-tracker pipeline:                                   *)
(*   - process_single_flight/lambda_function.py (the Indexer: handler,     *)
(*     ensure_index_exists, ensure_data_view_exists and the two            *)
(*     module-level flags), and                                            *)
(*   - fetch_flight_list/lambda_function.py (the Fetcher: handler).        *)
(* Python values, dictionaries, the requests library's responses and       *)
(* exception classes are modelled by what the code does with them.         *)
(***************************************************************************)
EXTENDS Integers, Sequences, FiniteSets, TLC

(***************************************************************************)
(* Bounds of the model.                                                    *)
(***************************************************************************)
\* number of Indexer invocations one warm process serves
MaxCalls == 2

(***************************************************************************)
(* Python values.  A value is a record with its type name, a number (for   *)
(* int, float and bool; the length of a list) and a sequence of characters *)
(* (for str).                                                              *)
(***************************************************************************)
PyNone == [t |-> "NoneType", n |-> 0, s |-> << >>]
PyInt(k) == [t |-> "int", n |-> k, s |-> << >>]
PyFloat(k) == [t |-> "float", n |-> k, s |-> << >>]
PyBool(b) == [t |-> "bool", n |-> IF b THEN 1 ELSE 0, s |-> << >>]
PyStr(chars) == [t |-> "str", n |-> 0, s |-> chars]

\* Python truth value testing: None, zero and the empty string are falsy
Truthy(v) ==
  CASE v.t = "NoneType" -> FALSE
    [] v.t \in {"int", "float", "bool"} -> v.n # 0
    [] v.t = "str" -> v.s # << >>
    [] v.t = "list" -> v.n # 0
    [] OTHER -> TRUE

\* dict.get(key) / dict.get(key, None): None when the key is absent
DictGet(d, key) == IF key \in DOMAIN d THEN d[key] ELSE PyNone

\* the dict left by dict.pop(key, None): the key is gone whatever its value
DictWithout(d, key) == [k \in (DOMAIN d) \ {key} |-> d[k]]

\* the dict after d[key] = value
DictWith(d, key, value) ==
  [k \in (DOMAIN d) \cup {key} |-> IF k = key THEN value ELSE d[k]]

EmptyDict == [k \in {} |-> PyNone]

(***************************************************************************)
(* The requests library: what a call can produce.                          *)
(***************************************************************************)
\* exception classes a requests call can raise, both of them RequestException:
\* ConnectionError, and ReadTimeout (a Timeout, not a ConnectionError); neither
\* carries a response.  raise_for_status() raises HTTPError, which does.
RequestErrors == {"ConnectionError", "ReadTimeout"}

\* the class hierarchy of requests.exceptions: ConnectTimeout is both a
\* ConnectionError and a Timeout; JSONDecodeError is a RequestException
IsConnectionError(cls) == cls \in {"ConnectionError", "ConnectTimeout"}
IsTimeout(cls) == cls \in {"ReadTimeout", "ConnectTimeout"}
IsHTTPError(cls) == cls = "HTTPError"
IsRequestException(cls) ==
  cls \in {"ConnectionError", "ConnectTimeout", "ReadTimeout", "HTTPError", "JSONDecodeError"}
\* e.response is None unless the exception was built with a response
HasResponse(cls) == cls = "HTTPError"

\* status codes the backends answer the provisioning calls with
Statuses == {200, 304, 404, 500}
\* status codes the index backend answers a document PUT with
DocumentStatuses == {201, 304, 500}

\* response bodies: text is response.text, json says whether response.json()
\* parses it to an object, result is that object's "result" entry
Bodies ==
  { [json |-> TRUE, result |-> PyStr(<<"created">>), text |-> "{result: created}"],
    [json |-> TRUE, result |-> PyStr(<<"updated">>), text |-> "{result: updated}"],
    [json |-> FALSE, result |-> PyNone, text |-> "Internal Server Error"] }

PlainBody == [json |-> FALSE, result |-> PyNone, text |-> ""]

\* what a requests call produces: a response, or an exception of class exc
Reply(status, body) == [exc |-> "none", status |-> status, body |-> body]
Raised(cls) == [exc |-> cls, status |-> 0, body |-> PlainBody]

\* answers to the provisioning calls (only the status is read)
ProvisioningReplies ==
  {Reply(st, PlainBody) : st \in Statuses} \cup {Raised(c) : c \in RequestErrors}

\* answers to the document PUT
DocumentReplies ==
  {Reply(st, b) : st \in DocumentStatuses, b \in Bodies} \cup {Raised(c) : c \in RequestErrors}

\* Response.raise_for_status(): HTTPError for a 4xx or 5xx status, else nothing
RaisesForStatus(status) == status >= 400 /\ status < 600

(***************************************************************************)
(* Indexer: process_single_flight/lambda_function.py                       *)
(***************************************************************************)
ES_HOST == "http://elasticsearch:9200"
INDEX_NAME == "flights"
KIBANA_HOST == "http://kibana:5601"
KIBANA_DATAVIEW_ID == "flights"

\* f"{value}" inside a URL: the characters of a str, the type's repr otherwise
Format(v) == IF v.t = "str" THEN v.s ELSE <<v.t>>

\* index_url = f"{ES_HOST}/{INDEX_NAME}"
IndexUrl == [host |-> ES_HOST, path |-> "/flights", id |-> << >>]
\* dataview_url = f"{KIBANA_HOST}/api/data_views/data_view/{KIBANA_DATAVIEW_ID}"
DataViewUrl == [host |-> KIBANA_HOST, path |-> "/api/data_views/data_view/flights", id |-> << >>]
\* create_url = f"{KIBANA_HOST}/api/data_views/data_view"
DataViewCreateUrl == [host |-> KIBANA_HOST, path |-> "/api/data_views/data_view", id |-> << >>]
\* mutant of DocUrl: the id is left out of the document URL
DocUrl_NoId(document_id) == [host |-> ES_HOST, path |-> "/flights/_doc/", id |-> << >>]

\* doc_url = f"{ES_HOST}/{INDEX_NAME}/_doc/{document_id}"
DocUrl(document_id) == [host |-> ES_HOST, path |-> "/flights/_doc/", id |-> Format(document_id)]

\* the threads of one warm process that may run handler
Threads == {"t1", "t2"}
\* the thread that runs the invocations of a process serving one event at a time
MainThread == "t1"

\* the events handler is invoked with: NormalizedFlight-shaped dicts whose
\* icao24 is absent, empty or set, whose latitude and longitude are absent,
\* None or set (0.0 included), with or without a location entry already in
\* the payload
IdValues == {PyStr(<< >>), PyStr(<<"a", "8">>), PyStr(<<"c", "0">>)}
StaleLocation == PyStr(<<"0", ",", "0">>)
BaseFlight == [callsign |-> PyStr(<<"S", "W", "R">>)]

WithOptional(d, key, values) == {d} \cup {DictWith(d, key, v) : v \in values}

Coordinates(d) ==
  { d,
    DictWith(d, "location", StaleLocation),
    DictWith(d, "latitude", PyFloat(47)),
    DictWith(DictWith(d, "latitude", PyNone), "longitude", PyFloat(8)),
    DictWith(DictWith(d, "latitude", PyFloat(47)), "longitude", PyNone),
    DictWith(DictWith(d, "latitude", PyFloat(0)), "longitude", PyFloat(8)),
    DictWith(DictWith(d, "latitude", PyFloat(47)), "longitude", PyFloat(8)),
    DictWith(DictWith(DictWith(d, "latitude", PyFloat(47)), "longitude", PyFloat(8)),
             "location", StaleLocation) }

Events == UNION { Coordinates(d) : d \in WithOptional(BaseFlight, "icao24", IdValues) }

\* lines 128-132: pop latitude and longitude, attach location when both are
\* not None
GeoPoint(latitude, longitude) == [t |-> "dict", lat |-> latitude, lon |-> longitude]

\* mutant of BothPresent: the coordinates are tested for truth, so that 0.0
\* counts as missing
BothPresent_Truthy(latitude, longitude) == Truthy(latitude) /\ Truthy(longitude)

BothPresent(latitude, longitude) ==
  latitude.t # "NoneType" /\ longitude.t # "NoneType"

WithLocation(d) ==
  LET latitude == DictGet(d, "latitude")
      longitude == DictGet(d, "longitude")
      popped == DictWithout(DictWithout(d, "latitude"), "longitude")
  IN IF BothPresent(latitude, longitude)
       THEN DictWith(popped, "location", GeoPoint(latitude, longitude))
       ELSE popped

\* what handler hands back to its caller
NoOutcome ==
  [kind |-> "none", statusCode |-> 0, message |-> "", id |-> PyNone,
   result |-> PyNone, cls |-> "", marker |-> "", text |-> ""]
\* return {"statusCode": 200, "body": "Skipped (no 24)"}
Skipped ==
  [kind |-> "return", statusCode |-> 200, message |-> "Skipped (no 24)", id |-> PyNone,
   result |-> PyNone, cls |-> "", marker |-> "", text |-> ""]
\* return {"statusCode": 201, "body": json.dumps({message, id, result})}
Indexed(document_id, result) ==
  [kind |-> "return", statusCode |-> 201, message |-> "Flight indexed successfully",
   id |-> document_id, result |-> result, cls |-> "", marker |-> "", text |-> ""]
\* raise cls(f"{marker}{text}")
Failure(cls, marker, text) ==
  [kind |-> "raise", statusCode |-> 0, message |-> "", id |-> PyNone,
   result |-> PyNone, cls |-> cls, marker |-> marker, text |-> text]

VARIABLES
  index_created,      \* _index_created
  data_view_created,  \* _data_view_created
  pc,                 \* per thread: where handler stands
  event,              \* per thread: the payload as the caller passed it
  flight,             \* per thread: the event dict as handler has changed it (flight = event)
  document_id,        \* per thread: handler's document_id
  outcome,            \* per thread: what the last invocation returned or raised
  sent,               \* per thread: the json body of the document PUT of this invocation
  response,           \* per thread: the reply to the thread's last requests call
  calls,              \* the HTTP calls issued so far, in order
  invocations,        \* number of handler invocations started
  serving             \* per thread: the number of the invocation it serves

VARIABLES
  fetch_pc,           \* where the Fetcher's handler stands
  fetch_response,     \* the reply to requests.get(API_URL)
  data,               \* data = response.json()
  cursor,             \* position of the for loop in data["states"]
  flight_list,        \* flight_list
  fetch_outcome       \* what the Fetcher's handler returned or raised

VARIABLES
  store,              \* the documents the index backend holds
  latest,             \* per icao24: the record of the last call that returned 201
  failed              \* a call that sent its document did not return 201

bvars == <<store, latest, failed>>

fvars == <<fetch_pc, fetch_response, data, cursor, flight_list, fetch_outcome>>

ivars == <<index_created, data_view_created, pc, event, flight, document_id, outcome,
           sent, response, calls, invocations, serving>>

NoReply == [exc |-> "none", status |-> 0, body |-> PlainBody]

NotSent == [put |-> FALSE, url |-> IndexUrl, json |-> EmptyDict]

\* how the code took the reply to a request statement: the exception class it
\* raised (by the call, or by raise_for_status() when the statement checks the
\* status), "not found" for a 404 that did not raise, "ok" otherwise
Answer(reply, checked) ==
  IF reply.exc # "none" THEN reply.exc
  ELSE IF checked /\ RaisesForStatus(reply.status) THEN "HTTPError"
  ELSE IF reply.status = 404 THEN "not found"
  ELSE "ok"

\* one HTTP call: the invocation and thread that issued it, the request and
\* the answer (a document PUT is logged as "sent": its reply is the thread's
\* response and decides the invocation's outcome)
Call(t, method, url, answer) ==
  [inv |-> serving[t], thread |-> t, method |-> method, url |-> url,
   answer |-> answer]

InitIndexer ==
  /\ index_created = FALSE
  /\ data_view_created = FALSE
  /\ pc = [t \in Threads |-> "idle"]
  /\ event = [t \in Threads |-> EmptyDict]
  /\ flight = [t \in Threads |-> EmptyDict]
  /\ document_id = [t \in Threads |-> PyNone]
  /\ outcome = [t \in Threads |-> NoOutcome]
  /\ sent = [t \in Threads |-> NotSent]
  /\ response = [t \in Threads |-> NoReply]
  /\ calls = << >>
  /\ invocations = 0
  /\ serving = [t \in Threads |-> 0]

\* the index is empty and no caller has been answered
InitBackend ==
  /\ store = {}
  /\ latest = {}
  /\ failed = FALSE

\* handler ends: the thread is free again and its outcome is what the caller sees
Finish(t, o) ==
  /\ pc' = [pc EXCEPT ![t] = "idle"]
  /\ outcome' = [outcome EXCEPT ![t] = o]

Goto(t, label) ==
  /\ pc' = [pc EXCEPT ![t] = label]
  /\ UNCHANGED outcome

\* a requests call on thread t: it is logged with the given answer and its
\* reply is the thread's response (or the exception e of the except clause)
Issue(t, method, url, reply, answer) ==
  /\ calls' = Append(calls, Call(t, method, url, answer))
  /\ response' = [response EXCEPT ![t] = reply]

\* line 51: the probe's answer that makes ensure_index_exists create the index
IndexProbeMissing(status) == status = 404

\* line 83: the probe's answer that makes ensure_data_view_exists create the view
DataViewProbeMissing(status) == status = 404

\* mutant of IndexFailure: the RequestException clause catches the
\* ConnectionError too
IndexFailure_Generic(cls) == Failure("Exception", "Error checking/creating index: ", cls)

\* lines 66-71: ensure_index_exists re-raises what a request raised
IndexFailure(cls) ==
  IF IsConnectionError(cls)
    THEN Failure("Exception", "Connection error: ", cls)
    ELSE Failure("Exception", "Error checking/creating index: ", cls)

\* line 111 reads e.response.text: AttributeError when e.response is None
DataViewLogFails(cls) == ~IsConnectionError(cls) /\ ~HasResponse(cls)

\* mutant of DocumentFailure: the HTTPError lands in the catch-all clause
DocumentFailure_Generic(cls, text) ==
  Failure("Exception", "An unexpected error occurred: ", cls)

\* lines 158-163: handler re-raises what the document PUT raised
DocumentFailure(cls, text) ==
  IF IsHTTPError(cls)
    THEN Failure("Exception", "HTTP error: ", text)
    ELSE Failure("Exception", "An unexpected error occurred: ", cls)

\* mutant of SkipsRecord: only a missing id is skipped, an empty one is not
SkipsRecord_IsNone(id) == id.t = "NoneType"

\* line 124: if not document_id
SkipsRecord(id) == ~Truthy(id)

\* an invocation of handler(event, context) starts on thread t
Invoke(t, payload) ==
  /\ pc[t] = "idle"
  /\ invocations < MaxCalls
  /\ invocations' = invocations + 1
  /\ serving' = [serving EXCEPT ![t] = invocations + 1]
  /\ event' = [event EXCEPT ![t] = payload]
  /\ flight' = [flight EXCEPT ![t] = payload]
  /\ document_id' = [document_id EXCEPT ![t] = PyNone]
  /\ sent' = [sent EXCEPT ![t] = NotSent]
  /\ response' = [response EXCEPT ![t] = NoReply]
  /\ pc' = [pc EXCEPT ![t] = "ensure_index"]
  /\ outcome' = [outcome EXCEPT ![t] = NoOutcome]
  /\ UNCHANGED <<index_created, data_view_created, calls>>
  /\ UNCHANGED <<fvars, bvars>>

\* mutant of EnsureIndexCheck: a lock around the check-then-act sequence, so
\* that a thread waits while another one is between the check and the set
EnsureIndexCheck_Locked(t) ==
  /\ pc[t] = "ensure_index"
  /\ \A u \in Threads \ {t} : pc[u] \notin {"index_head", "index_create", "index_set"}
  /\ Goto(t, IF index_created THEN "ensure_data_view" ELSE "index_head")
  /\ UNCHANGED <<index_created, data_view_created, flight, document_id, sent, response,
                 calls, invocations, serving, event>>
  /\ UNCHANGED <<fvars, bvars>>

\* mutant of EnsureIndexCheck: the flag is not consulted and the index is
\* probed in every call
EnsureIndexCheck_Always(t) ==
  /\ pc[t] = "ensure_index"
  /\ Goto(t, "index_head")
  /\ UNCHANGED <<index_created, data_view_created, flight, document_id, sent, response,
                 calls, invocations, serving, event>>
  /\ UNCHANGED <<fvars, bvars>>

\* lines 42-46: if _index_created: return
EnsureIndexCheck(t) ==
  /\ pc[t] = "ensure_index"
  /\ Goto(t, IF index_created THEN "ensure_data_view" ELSE "index_head")
  /\ UNCHANGED <<index_created, data_view_created, flight, document_id, sent, response,
                 calls, invocations, serving, event>>
  /\ UNCHANGED <<fvars, bvars>>

\* lines 49-52 and 66-71: requests.head(index_url)
EnsureIndexHead(t, reply) ==
  /\ pc[t] = "index_head"
  /\ Issue(t, "HEAD", IndexUrl, reply, Answer(reply, FALSE))
  /\ IF reply.exc # "none"
       THEN Finish(t, IndexFailure(reply.exc))
       ELSE Goto(t, IF IndexProbeMissing(reply.status) THEN "index_create" ELSE "index_set")
  /\ UNCHANGED <<index_created, data_view_created, flight, document_id, sent,
                 invocations, serving, event>>
  /\ UNCHANGED <<fvars, bvars>>

\* lines 54-62 and 66-71: requests.put(index_url, json=FLIGHT_MAPPING) and
\* create_response.raise_for_status()
EnsureIndexCreate(t, reply) ==
  /\ pc[t] = "index_create"
  /\ Issue(t, "PUT", IndexUrl, reply, Answer(reply, TRUE))
  /\ IF reply.exc # "none"
       THEN Finish(t, IndexFailure(reply.exc))
       ELSE IF RaisesForStatus(reply.status)
         THEN Finish(t, IndexFailure("HTTPError"))
         ELSE Goto(t, "index_set")
  /\ UNCHANGED <<index_created, data_view_created, flight, document_id, sent,
                 invocations, serving, event>>
  /\ UNCHANGED <<fvars, bvars>>

\* mutant of EnsureIndexSet: without the global statement the assignment
\* binds a local and the module flag stays unset
EnsureIndexSet_NoGlobal(t) ==
  /\ pc[t] = "index_set"
  /\ Goto(t, "ensure_data_view")
  /\ UNCHANGED <<index_created, data_view_created, flight, document_id, sent, response,
                 calls, invocations, serving, event>>
  /\ UNCHANGED <<fvars, bvars>>

\* line 64: _index_created = True
EnsureIndexSet(t) ==
  /\ pc[t] = "index_set"
  /\ index_created' = TRUE
  /\ Goto(t, "ensure_data_view")
  /\ UNCHANGED <<data_view_created, flight, document_id, sent, response, calls, invocations, serving, event>>
  /\ UNCHANGED <<fvars, bvars>>

\* mutant of EnsureDataViewCheck: handler goes on to the record without
\* running ensure_data_view_exists
EnsureDataViewCheck_Skip(t) ==
  /\ pc[t] = "ensure_data_view"
  /\ Goto(t, "prepare")
  /\ UNCHANGED <<index_created, data_view_created, flight, document_id, sent, response,
                 calls, invocations, serving, event>>
  /\ UNCHANGED <<fvars, bvars>>

\* lines 74-78: if _data_view_created: return
EnsureDataViewCheck(t) ==
  /\ pc[t] = "ensure_data_view"
  /\ Goto(t, IF data_view_created THEN "prepare" ELSE "data_view_get")
  /\ UNCHANGED <<index_created, data_view_created, flight, document_id, sent, response,
                 calls, invocations, serving, event>>
  /\ UNCHANGED <<fvars, bvars>>

\* mutant of DataViewAbsorb: a connectivity failure is re-raised, as
\* ensure_index_exists does
DataViewAbsorb_Reraise(t, cls) ==
  IF DataViewLogFails(cls) \/ IsConnectionError(cls)
    THEN /\ Finish(t, Failure("Exception", "Connection error: ", cls))
         /\ UNCHANGED data_view_created
    ELSE /\ data_view_created' = TRUE
         /\ Goto(t, "prepare")

\* lines 107-112: the except clauses of ensure_data_view_exists; the second
\* one formats e.response.text before it sets the flag
DataViewAbsorb(t, cls) ==
  IF DataViewLogFails(cls)
    THEN /\ Finish(t, Failure("AttributeError", "", "NoneType has no attribute text"))
         /\ UNCHANGED data_view_created
    ELSE /\ data_view_created' = TRUE
         /\ Goto(t, "prepare")

\* lines 81-83 and 107-112: requests.get(dataview_url)
EnsureDataViewGet(t, reply) ==
  /\ pc[t] = "data_view_get"
  /\ Issue(t, "GET", DataViewUrl, reply, Answer(reply, FALSE))
  /\ IF reply.exc # "none"
       THEN DataViewAbsorb(t, reply.exc)
       ELSE /\ Goto(t, IF DataViewProbeMissing(reply.status)
                         THEN "data_view_post" ELSE "data_view_set")
            /\ UNCHANGED data_view_created
  /\ UNCHANGED <<index_created, flight, document_id, sent, invocations, serving, event>>
  /\ UNCHANGED <<fvars, bvars>>

\* lines 86-103 and 107-112: requests.post(create_url, json=payload) and
\* create_response.raise_for_status()
EnsureDataViewPost(t, reply) ==
  /\ pc[t] = "data_view_post"
  /\ Issue(t, "POST", DataViewCreateUrl, reply, Answer(reply, TRUE))
  /\ IF reply.exc # "none"
       THEN DataViewAbsorb(t, reply.exc)
       ELSE IF RaisesForStatus(reply.status)
         THEN DataViewAbsorb(t, "HTTPError")
         ELSE /\ Goto(t, "data_view_set")
              /\ UNCHANGED data_view_created
  /\ UNCHANGED <<index_created, flight, document_id, sent, invocations, serving, event>>
  /\ UNCHANGED <<fvars, bvars>>

\* mutant of EnsureDataViewSet: without the global statement the assignment
\* binds a local and the module flag stays unset
EnsureDataViewSet_NoGlobal(t) ==
  /\ pc[t] = "data_view_set"
  /\ Goto(t, "prepare")
  /\ UNCHANGED <<index_created, data_view_created, flight, document_id, sent, response,
                 calls, invocations, serving, event>>
  /\ UNCHANGED <<fvars, bvars>>

\* line 105: _data_view_created = True
EnsureDataViewSet(t) ==
  /\ pc[t] = "data_view_set"
  /\ data_view_created' = TRUE
  /\ Goto(t, "prepare")
  /\ UNCHANGED <<index_created, flight, document_id, sent, response, calls, invocations, serving, event>>
  /\ UNCHANGED <<fvars, bvars>>

\* lines 120-132: document_id = flight.get("icao24"); skip when falsy;
\* otherwise pop the coordinates and attach the location
HandlerPrepare(t) ==
  /\ pc[t] = "prepare"
  /\ document_id' = [document_id EXCEPT ![t] = DictGet(flight[t], "icao24")]
  /\ IF SkipsRecord(DictGet(flight[t], "icao24"))
       THEN /\ Finish(t, Skipped)
            /\ UNCHANGED flight
       ELSE /\ flight' = [flight EXCEPT ![t] = WithLocation(flight[t])]
            /\ Goto(t, "put")
  /\ UNCHANGED <<index_created, data_view_created, sent, response, calls, invocations, serving, event>>
  /\ UNCHANGED <<fvars, bvars>>

\* lines 144-163: raise_for_status(), response.json() and the return, or the
\* except clause the failure lands in
DocumentOutcome(id, reply) ==
  IF reply.exc # "none"
    THEN DocumentFailure(reply.exc, "")
    ELSE IF RaisesForStatus(reply.status)
      THEN DocumentFailure("HTTPError", reply.body.text)
      ELSE IF ~reply.body.json
        THEN DocumentFailure("JSONDecodeError", "")
        ELSE Indexed(id, reply.body.result)

\* lines 134-163: requests.put(doc_url, json=flight) and what follows
PutDocument(t, reply) ==
  /\ pc[t] = "put"
  /\ Issue(t, "PUT", DocUrl(document_id[t]), reply, "sent")
  /\ sent' = [sent EXCEPT ![t] = [put |-> TRUE, url |-> DocUrl(document_id[t]),
                                  json |-> flight[t]]]
  /\ Finish(t, DocumentOutcome(document_id[t], reply))
  /\ UNCHANGED <<index_created, data_view_created, flight, document_id, invocations, serving, event>>
  /\ UNCHANGED fvars

\* the document PUT against an index backend that answers anything
HandlerPut(t, reply) ==
  /\ PutDocument(t, reply)
  /\ UNCHANGED bvars

\* PUT {index}/_doc/{id} on a backend that overwrites: the document stored
\* under the id is replaced, the others stay
Overwritten(documents, id, doc) ==
  {d \in documents : d.id # id} \cup {[id |-> id, doc |-> doc]}

\* what the index backend answers a document PUT with, and whether it wrote
\* the document: 201 created for a new id and 200 updated for a known one
\* when it wrote; 500 when it rejected; no reply in time, written or not; no
\* connection
BackendReplies(id) ==
  { [written |-> TRUE,
     reply |-> IF \E d \in store : d.id = id
                 THEN Reply(200, [json |-> TRUE, result |-> PyStr(<<"updated">>),
                                  text |-> "{result: updated}"])
                 ELSE Reply(201, [json |-> TRUE, result |-> PyStr(<<"created">>),
                                  text |-> "{result: created}"])],
    [written |-> FALSE,
     reply |-> Reply(500, [json |-> FALSE, result |-> PyNone, text |-> "Internal Server Error"])],
    [written |-> TRUE, reply |-> Raised("ReadTimeout")],
    [written |-> FALSE, reply |-> Raised("ReadTimeout")],
    [written |-> FALSE, reply |-> Raised("ConnectionError")] }

\* the record of the last call for this icao24 that returned 201, if any
Accepted(id) == {l \in latest : l.id = id}

\* the document PUT against a backend that overwrites on PUT to an explicit
\* id; what the caller is told is noted
BackendPut(t, answer) ==
  /\ PutDocument(t, answer.reply)
  /\ store' = IF answer.written
                THEN Overwritten(store, DocUrl(document_id[t]).id, flight[t])
                ELSE store
  /\ IF DocumentOutcome(document_id[t], answer.reply).statusCode = 201
       THEN /\ latest' = {l \in latest : l.id # DictGet(event[t], "icao24")}
                           \cup {[id |-> DictGet(event[t], "icao24"), event |-> event[t],
                                  repeated |-> \E l \in Accepted(DictGet(event[t], "icao24")) :
                                                 l.event = event[t]]}
            /\ UNCHANGED failed
       ELSE /\ failed' = TRUE
            /\ UNCHANGED latest

\* the steps of handler on thread t up to the document PUT
Provision(t, payloads, provisioning) ==
  \/ \E payload \in payloads : Invoke(t, payload)
  \/ EnsureIndexCheck(t)
  \/ \E reply \in provisioning : EnsureIndexHead(t, reply)
  \/ \E reply \in provisioning : EnsureIndexCreate(t, reply)
  \/ EnsureIndexSet(t)
  \/ EnsureDataViewCheck(t)
  \/ \E reply \in provisioning : EnsureDataViewGet(t, reply)
  \/ \E reply \in provisioning : EnsureDataViewPost(t, reply)
  \/ EnsureDataViewSet(t)
  \/ HandlerPrepare(t)

\* one step of handler on thread t, for payloads and replies of the given sets
Step(t, payloads, provisioning, documents) ==
  \/ Provision(t, payloads, provisioning)
  \/ \E reply \in documents : HandlerPut(t, reply)

\* one step of handler on thread t
HandlerStep(t) == Step(t, Events, ProvisioningReplies, DocumentReplies)

\* the payload and replies of the interleaved runs: a record with icao24 and
\* coordinates, backends that answer found or not found (a create answered
\* not found fails), and an index backend that stores the document
RaceEvents ==
  { DictWith(DictWith(DictWith(BaseFlight, "icao24", PyStr(<<"a", "8">>)),
                      "latitude", PyFloat(47)), "longitude", PyFloat(8)) }
RaceProvisioningReplies == {Reply(200, PlainBody), Reply(404, PlainBody)}
RaceDocumentReplies ==
  { Reply(201, [json |-> TRUE, result |-> PyStr(<<"created">>), text |-> "{result: created}"]) }

(***************************************************************************)
(* Fetcher: fetch_flight_list/lambda_function.py                           *)
(***************************************************************************)
Whitespace == {" ", "\t", "\n"}

RECURSIVE LStrip(_)
LStrip(chars) ==
  IF chars # << >> /\ Head(chars) \in Whitespace THEN LStrip(Tail(chars)) ELSE chars

RECURSIVE RStrip(_)
RStrip(chars) ==
  IF chars # << >> /\ chars[Len(chars)] \in Whitespace
    THEN RStrip(SubSeq(chars, 1, Len(chars) - 1))
    ELSE chars

\* str.strip()
Strip(chars) == RStrip(LStrip(chars))

DigitChars == <<"0", "1", "2", "3", "4", "5", "6", "7", "8", "9">>
IsDigit(c) == \E d \in 1..Len(DigitChars) : DigitChars[d] = c
DigitValue(c) == (CHOOSE d \in 1..Len(DigitChars) : DigitChars[d] = c) - 1

RECURSIVE Digits(_)
Digits(k) == IF k < 10 THEN <<DigitChars[k + 1]>> ELSE Digits(k \div 10) \o <<DigitChars[(k % 10) + 1]>>

\* repr of a whole number
Numeral(k) == IF k < 0 THEN <<"-">> \o Digits(0 - k) ELSE Digits(k)

\* str(value)
Str(v) ==
  CASE v.t = "str" -> v.s
    [] v.t = "int" -> Numeral(v.n)
    [] v.t = "float" -> Numeral(v.n) \o <<".", "0">>
    [] v.t = "bool" -> IF v.n = 1 THEN <<"True">> ELSE <<"False">>
    [] OTHER -> <<"None">>

RECURSIVE DigitsValue(_, _)
DigitsValue(chars, acc) ==
  IF chars = << >> THEN acc
  ELSE DigitsValue(Tail(chars), 10 * acc + DigitValue(Head(chars)))

\* float(str): surrounding whitespace is dropped, then an optional sign and
\* digits are read (numbers are whole in this model); anything else is a
\* ValueError
ParseFloat(chars) ==
  LET body == Strip(chars)
      negative == body # << >> /\ Head(body) = "-"
      digits == IF negative THEN Tail(body) ELSE body
  IN IF digits # << >> /\ \A i \in 1..Len(digits) : IsDigit(digits[i])
       THEN [ok |-> TRUE, cls |-> "",
             value |-> PyFloat(IF negative THEN 0 - DigitsValue(digits, 0)
                                           ELSE DigitsValue(digits, 0))]
       ELSE [ok |-> FALSE, cls |-> "ValueError", value |-> PyNone]

\* float(value)
Float(v) ==
  CASE v.t \in {"int", "float", "bool"} -> [ok |-> TRUE, cls |-> "", value |-> PyFloat(v.n)]
    [] v.t = "str" -> ParseFloat(v.s)
    [] OTHER -> [ok |-> FALSE, cls |-> "TypeError", value |-> PyNone]

\* mutant of FloatOrNone: float(x or 0), which turns a missing value into 0.0
FloatOrNone_ZeroDefault(x) ==
  IF Truthy(x) THEN Float(x) ELSE [ok |-> TRUE, cls |-> "", value |-> PyFloat(0)]

\* float(x) if x else None
FloatOrNone(x) ==
  IF Truthy(x) THEN Float(x) ELSE [ok |-> TRUE, cls |-> "", value |-> PyNone]

\* str(x).strip() if x else None
StrippedOrNone(x) == IF Truthy(x) THEN PyStr(Strip(Str(x))) ELSE PyNone

\* str(x) if x else None
StrOrNone(x) == IF Truthy(x) THEN PyStr(Str(x)) ELSE PyNone

\* the positions of a state vector that lines 25-32 turn into numbers, as
\* Python indexes them, and the fields they become
NumericFields ==
  << [index |-> 5, field |-> "longitude"],
     [index |-> 6, field |-> "latitude"],
     [index |-> 7, field |-> "baro_altitude_m"],
     [index |-> 9, field |-> "velocity_mps"],
     [index |-> 10, field |-> "true_track_deg"],
     [index |-> 11, field |-> "vertical_rate_mps"],
     [index |-> 13, field |-> "geo_altitude_m"] >>

\* flight_state[index]: Python indexes from 0; past the end is an IndexError
InRange(flight_state, index) == index + 1 <= Len(flight_state)
Item(flight_state, index) == flight_state[index + 1]

\* the positions lines 23-32 read
PositionsRead == {1, 2, 8} \cup {NumericFields[i].index : i \in 1..Len(NumericFields)}

NumericPositions == {NumericFields[i].index : i \in 1..Len(NumericFields)}

\* the read of flight_state[index] in lines 23-32 raises: the position is
\* missing, or it is a numeric position whose value float() rejects
ReadFails(flight_state, index) ==
  \/ ~InRange(flight_state, index)
  \/ index \in NumericPositions /\ ~FloatOrNone(Item(flight_state, index)).ok

\* lines 22-33 raise for this state vector
MapFails(flight_state) == \E index \in PositionsRead : ReadFails(flight_state, index)

\* the exception lines 22-33 raise: the dict display reads the positions in
\* rising order, so the first failing read decides
MapError(flight_state) ==
  LET first == CHOOSE index \in PositionsRead :
                 /\ ReadFails(flight_state, index)
                 /\ \A other \in PositionsRead :
                      ReadFails(flight_state, other) => index <= other
  IN IF ~InRange(flight_state, first) THEN "IndexError"
     ELSE FloatOrNone(Item(flight_state, first)).cls

NumericValue(flight_state, index) == FloatOrNone(Item(flight_state, index)).value

\* mutant of MapFlight: the transponder code at position 0 is mapped too
MapFlight_WithIcao24(flight_state) ==
  [icao24 |-> StrOrNone(Item(flight_state, 0)),
   callsign |-> StrippedOrNone(Item(flight_state, 1)),
   origin_country |-> StrOrNone(Item(flight_state, 2)),
   longitude |-> NumericValue(flight_state, 5),
   latitude |-> NumericValue(flight_state, 6),
   baro_altitude_m |-> NumericValue(flight_state, 7),
   on_ground |-> PyBool(Truthy(Item(flight_state, 8))),
   velocity_mps |-> NumericValue(flight_state, 9),
   true_track_deg |-> NumericValue(flight_state, 10),
   vertical_rate_mps |-> NumericValue(flight_state, 11),
   geo_altitude_m |-> NumericValue(flight_state, 13)]

\* lines 22-33: the dict appended for one state vector
MapFlight(flight_state) ==
  [callsign |-> StrippedOrNone(Item(flight_state, 1)),
   origin_country |-> StrOrNone(Item(flight_state, 2)),
   longitude |-> NumericValue(flight_state, 5),
   latitude |-> NumericValue(flight_state, 6),
   baro_altitude_m |-> NumericValue(flight_state, 7),
   on_ground |-> PyBool(Truthy(Item(flight_state, 8))),
   velocity_mps |-> NumericValue(flight_state, 9),
   true_track_deg |-> NumericValue(flight_state, 10),
   vertical_rate_mps |-> NumericValue(flight_state, 11),
   geo_altitude_m |-> NumericValue(flight_state, 13)]

\* raw values the telemetry API may put at a numeric position and float()
\* accepts, or that are falsy: null, zeros, numbers, a numeral, a boolean and
\* the empty string
NumericPool ==
  << PyNone, PyFloat(250), PyInt(0), PyInt(-73), PyStr(<<" ", "1", "2">>),
     PyFloat(0), PyBool(TRUE), PyStr(<< >>), PyFloat(40) >>
CallsignPool ==
  << PyStr(<<"T", "1", " ">>), PyNone, PyStr(<<" ">>), PyStr(<< >>), PyInt(7) >>
CountryPool == << PyStr(<<"U", "S">>), PyNone, PyStr(<< >>) >>
FlagPool == << PyBool(FALSE), PyBool(TRUE), PyNone, PyInt(1) >>

Pick(pool, k) == pool[(k % Len(pool)) + 1]

\* the k-th raw state vector of the model: 17 positions, the numeric ones
\* filled from the pool starting at its k-th value, so that every position
\* meets every value and neighbouring positions differ
StateVector(k) ==
  [p \in 1..17 |->
     CASE p = 1 -> PyStr(<<"a", "b">>)
       [] p = 2 -> Pick(CallsignPool, k)
       [] p = 3 -> Pick(CountryPool, k)
       [] p = 9 -> Pick(FlagPool, k)
       [] p \in {6, 7, 8, 10, 11, 12, 14} -> Pick(NumericPool, k + p)
       [] OTHER -> PyNone]

\* a state vector cut short before position 13
ShortVector == SubSeq(StateVector(1), 1, 12)
\* a state vector whose barometric altitude is text, and one where it is a list
TextVector == [StateVector(1) EXCEPT ![8] = PyStr(<<"x">>)]
ListVector == [StateVector(1) EXCEPT ![8] = [t |-> "list", n |-> 2, s |-> << >>]]

\* a state vector whose every position is null
NullVector == [p \in 1..17 |-> PyNone]

StateVectors ==
  {StateVector(k) : k \in 0..(Len(NumericPool) - 1)}
  \cup {ShortVector, TextVector, ListVector, NullVector}

\* longest "states" list of a telemetry response
MaxStates == 2

RECURSIVE ListsUpTo(_, _)
ListsUpTo(S, k) ==
  IF k = 0 THEN {<< >>}
  ELSE LET shorter == ListsUpTo(S, k - 1)
       IN shorter \cup {Append(l, x) : l \in shorter, x \in S}

\* response.json(): not JSON; a JSON array; or an object whose "states" is
\* absent, null or a list
NoData == [kind |-> "none", states |-> "absent", list |-> << >>]
Datas ==
  { [kind |-> "invalid", states |-> "absent", list |-> << >>],
    [kind |-> "array", states |-> "absent", list |-> << >>],
    [kind |-> "object", states |-> "absent", list |-> << >>],
    [kind |-> "object", states |-> "null", list |-> << >>] }
  \cup { [kind |-> "object", states |-> "list", list |-> l] : l \in ListsUpTo(StateVectors, MaxStates) }

\* what requests.get(API_URL, timeout=10) produces
FetchErrors == {"ReadTimeout", "ConnectTimeout", "ConnectionError"}
FetchReply(cls, status, d) == [exc |-> cls, status |-> status, data |-> d]
FetchReplies ==
  {FetchReply(cls, 0, NoData) : cls \in FetchErrors}
  \cup {FetchReply("none", 200, d) : d \in Datas}
  \cup {FetchReply("none", st, [kind |-> "object", states |-> "absent", list |-> << >>])
          : st \in {304, 429, 503}}

\* response.json() raises requests.exceptions.JSONDecodeError, a
\* RequestException, or a plain ValueError, depending on the requests release
JsonErrors == {"JSONDecodeError", "ValueError"}

\* mutant of FetchFailure: the RequestException clause stands before the
\* Timeout clause and catches the timeouts too
FetchFailure_RequestFirst(cls) ==
  IF IsRequestException(cls) THEN Failure("Exception", "API request failed: ", cls)
  ELSE IF IsTimeout(cls) THEN Failure("Exception", "Request timed out", "")
  ELSE Failure("Exception", "An unexpected error occurred: ", cls)

\* lines 38-48: what handler raises for an exception of class cls
FetchFailure(cls) ==
  IF IsTimeout(cls) THEN Failure("Exception", "Request timed out", "")
  ELSE IF IsRequestException(cls) THEN Failure("Exception", "API request failed: ", cls)
  ELSE Failure("Exception", "An unexpected error occurred: ", cls)

NoFetchOutcome == [kind |-> "none", list |-> << >>, failure |-> NoOutcome]
FetchReturned(l) == [kind |-> "return", list |-> l, failure |-> NoOutcome]
FetchRaised(cls) == [kind |-> "raise", list |-> << >>, failure |-> FetchFailure(cls)]

InitFetcher ==
  /\ fetch_pc = "start"
  /\ fetch_response = FetchReply("none", 0, NoData)
  /\ data = NoData
  /\ cursor = 0
  /\ flight_list = << >>
  /\ fetch_outcome = NoFetchOutcome

FetchFinish(o) ==
  /\ fetch_pc' = "done"
  /\ fetch_outcome' = o

\* line 14: response = requests.get(API_URL, timeout=10)
FetchGet(reply) ==
  /\ fetch_pc = "start"
  /\ fetch_response' = reply
  /\ IF reply.exc # "none"
       THEN FetchFinish(FetchRaised(reply.exc))
       ELSE fetch_pc' = "status" /\ UNCHANGED fetch_outcome
  /\ UNCHANGED <<data, cursor, flight_list>>
  /\ UNCHANGED <<ivars, bvars>>

\* line 15: response.raise_for_status()
FetchRaiseForStatus ==
  /\ fetch_pc = "status"
  /\ IF RaisesForStatus(fetch_response.status)
       THEN FetchFinish(FetchRaised("HTTPError"))
       ELSE fetch_pc' = "json" /\ UNCHANGED fetch_outcome
  /\ UNCHANGED <<fetch_response, data, cursor, flight_list>>
  /\ UNCHANGED <<ivars, bvars>>

\* lines 17-18: data = response.json(); flight_list = []
FetchJson(cls) ==
  /\ fetch_pc = "json"
  /\ IF fetch_response.data.kind = "invalid"
       THEN /\ FetchFinish(FetchRaised(cls))
            /\ UNCHANGED <<data, flight_list>>
       ELSE /\ data' = fetch_response.data
            /\ flight_list' = << >>
            /\ fetch_pc' = "test"
            /\ UNCHANGED fetch_outcome
  /\ UNCHANGED <<fetch_response, cursor>>
  /\ UNCHANGED <<ivars, bvars>>

\* data.get("states") is truthy: the key is there with a non-empty list
HasStates(d) == d.states = "list" /\ d.list # << >>

\* mutant of FetchTestStates: for flight_state in data["states"] without the
\* test, so that a missing key is a KeyError and a null is a TypeError
FetchTestStates_Subscript ==
  /\ fetch_pc = "test"
  /\ IF data.kind = "array" \/ data.states # "list"
       THEN /\ FetchFinish(FetchRaised(IF data.states = "absent" THEN "KeyError" ELSE "TypeError"))
            /\ UNCHANGED cursor
       ELSE /\ fetch_pc' = IF data.list # << >> THEN "loop" ELSE "return"
            /\ cursor' = 1
            /\ UNCHANGED fetch_outcome
  /\ UNCHANGED <<fetch_response, data, flight_list>>
  /\ UNCHANGED <<ivars, bvars>>

\* line 20: if data.get("states") (a JSON array has no get: AttributeError)
FetchTestStates ==
  /\ fetch_pc = "test"
  /\ IF data.kind = "array"
       THEN FetchFinish(FetchRaised("AttributeError")) /\ UNCHANGED cursor
       ELSE /\ fetch_pc' = IF HasStates(data) THEN "loop" ELSE "return"
            /\ cursor' = 1
            /\ UNCHANGED fetch_outcome
  /\ UNCHANGED <<fetch_response, data, flight_list>>
  /\ UNCHANGED <<ivars, bvars>>

\* mutant of FetchMapOne: a record whose callsign is unknown is left out
FetchMapOne_SkipIncomplete ==
  /\ fetch_pc = "loop"
  /\ LET flight_state == data.list[cursor]
     IN IF MapFails(flight_state)
          THEN /\ FetchFinish(FetchRaised(MapError(flight_state)))
               /\ UNCHANGED <<cursor, flight_list>>
          ELSE /\ flight_list' = IF MapFlight(flight_state).callsign = PyNone
                                   THEN flight_list
                                   ELSE Append(flight_list, MapFlight(flight_state))
               /\ cursor' = cursor + 1
               /\ fetch_pc' = IF cursor = Len(data.list) THEN "return" ELSE "loop"
               /\ UNCHANGED fetch_outcome
  /\ UNCHANGED <<fetch_response, data>>
  /\ UNCHANGED <<ivars, bvars>>

\* lines 21-33: one round of the for loop
FetchMapOne ==
  /\ fetch_pc = "loop"
  /\ LET flight_state == data.list[cursor]
     IN IF MapFails(flight_state)
          THEN /\ FetchFinish(FetchRaised(MapError(flight_state)))
               /\ UNCHANGED <<cursor, flight_list>>
          ELSE /\ flight_list' = Append(flight_list, MapFlight(flight_state))
               /\ cursor' = cursor + 1
               /\ fetch_pc' = IF cursor = Len(data.list) THEN "return" ELSE "loop"
               /\ UNCHANGED fetch_outcome
  /\ UNCHANGED <<fetch_response, data>>
  /\ UNCHANGED <<ivars, bvars>>

\* lines 35-36: return flight_list
FetchReturn ==
  /\ fetch_pc = "return"
  /\ FetchFinish(FetchReturned(flight_list))
  /\ UNCHANGED <<fetch_response, data, cursor, flight_list>>
  /\ UNCHANGED <<ivars, bvars>>

vars == <<ivars, fvars, bvars>>

Init == InitIndexer /\ InitFetcher /\ InitBackend

\* a warm process serving one Indexer invocation at a time
Next == HandlerStep(MainThread)

Spec == Init /\ [][Next]_vars

\* a warm process whose threads serve invocations side by side: a thread
\* can be suspended between any two statements of handler
NextRace ==
  \E t \in Threads : Step(t, RaceEvents, RaceProvisioningReplies, RaceDocumentReplies)

SpecRace == Init /\ [][NextRace]_vars

\* the records of the runs against the overwriting backend: two aircraft, one
\* of them reported at two positions and once without a position
StoreEvents ==
  LET a8 == DictWith(BaseFlight, "icao24", PyStr(<<"a", "8">>))
      c0 == DictWith(BaseFlight, "icao24", PyStr(<<"c", "0">>))
  IN { a8,
       DictWith(DictWith(a8, "latitude", PyFloat(47)), "longitude", PyFloat(8)),
       DictWith(DictWith(a8, "latitude", PyFloat(0)), "longitude", PyFloat(8)),
       DictWith(DictWith(c0, "latitude", PyFloat(47)), "longitude", PyFloat(8)) }

\* a warm process serving one invocation at a time against an index backend
\* that overwrites on PUT to an explicit id
NextStore ==
  \/ Provision(MainThread, StoreEvents, RaceProvisioningReplies)
  \/ \E answer \in BackendReplies(DocUrl(document_id[MainThread]).id) :
       BackendPut(MainThread, answer)

SpecStore == Init /\ [][NextStore]_vars

\* one step of the Fetcher's handler, for telemetry answers of the given set
FetchStep(replies) ==
  \/ \E reply \in replies : FetchGet(reply)
  \/ FetchRaiseForStatus
  \/ \E cls \in JsonErrors : FetchJson(cls)
  \/ FetchTestStates
  \/ FetchMapOne
  \/ FetchReturn

\* one invocation of the Fetcher
NextFetch == FetchStep(FetchReplies)

SpecFetch == Init /\ [][NextFetch]_vars

\* the telemetry answers of the pipeline runs: a timeout, a body that is not
\* JSON, and states lists of the all-null vector, a full vector and a vector
\* that cannot be mapped
PipelineVectors == {NullVector, StateVector(0), TextVector}
PipelineReplies ==
  {FetchReply("ReadTimeout", 0, NoData),
   FetchReply("none", 200, [kind |-> "invalid", states |-> "absent", list |-> << >>])}
  \cup { FetchReply("none", 200, [kind |-> "object", states |-> "list", list |-> l])
           : l \in ListsUpTo(PipelineVectors, MaxStates) }

\* the records of the list the Fetcher returned
FetchedRecords == {fetch_outcome.list[i] : i \in 1..Len(fetch_outcome.list)}

\* a fetched record to which the dispatcher added the transponder code
Identified(record) == DictWith(record, "icao24", PyStr(<<"a", "b">>))

\* the dispatcher outside the two units hands each record of the Fetcher's
\* list to an Indexer invocation, as it is or with the identifier added
DispatchedEvents == FetchedRecords \cup {Identified(record) : record \in FetchedRecords}

NextPipeline ==
  \/ FetchStep(PipelineReplies)
  \/ Step(MainThread, DispatchedEvents, ProvisioningReplies, DocumentReplies)

SpecPipeline == Init /\ [][NextPipeline]_vars

(***************************************************************************)
(* Reading the state: the calls of one invocation, and what kind each is.  *)
(***************************************************************************)
CallsOf(k) == SelectSeq(calls, LAMBDA c : c.inv = k)

IsIndexProbe(c) == c.method = "HEAD" /\ c.url = IndexUrl
IsIndexCreate(c) == c.method = "PUT" /\ c.url = IndexUrl
IsDataViewProbe(c) == c.method = "GET" /\ c.url = DataViewUrl
IsDataViewCreate(c) == c.method = "POST" /\ c.url = DataViewCreateUrl
IsDocumentPut(c) == c.method = "PUT" /\ c.url.host = ES_HOST /\ c.url.path = "/flights/_doc/"
IsWrite(c) == c.method \in {"PUT", "POST"}

\* thread t has served an invocation to its end and not started another
Ended(t) == pc[t] = "idle" /\ outcome[t].kind # "none"
\* the calls of the invocation thread t serves
OwnCalls(t) == CallsOf(serving[t])
HasId(d) == Truthy(DictGet(d, "icao24"))
\* the reply was a response with a 2xx status
Is2xx(reply) == reply.exc = "none" /\ reply.status >= 200 /\ reply.status < 300
\* the reply was a response with a 4xx or 5xx status
IsErrorStatus(reply) == reply.exc = "none" /\ reply.status >= 400 /\ reply.status < 600

FirstCalls == CallsOf(1)
FirstEnded == invocations >= 1 /\ \A t \in Threads : serving[t] = 1 => pc[t] = "idle"
\* the first invocation of the process probed the index and was told not-found
ProbeSaidMissing ==
  /\ Len(FirstCalls) >= 1
  /\ IsIndexProbe(FirstCalls[1])
  /\ FirstCalls[1].answer = "not found"
NoIndexProvisioningAfterFirst ==
  \A i \in 1..Len(calls) :
    calls[i].inv >= 2 => ~IsIndexProbe(calls[i]) /\ ~IsIndexCreate(calls[i])

\* C1, as stated: in a fresh process whose index probe reports not-found, the
\* first call on a record with icao24 issues HEAD, then the create PUT, then
\* the document PUT, and a second call issues no index probe and no create.
C1_Original ==
  (ProbeSaidMissing /\ FirstEnded) =>
    /\ \A t \in Threads :
         (serving[t] = 1 /\ HasId(event[t])) =>
           /\ Len(FirstCalls) >= 3
           /\ IsIndexCreate(FirstCalls[2])
           /\ \E i \in 3..Len(FirstCalls) : IsDocumentPut(FirstCalls[i])
    /\ NoIndexProvisioningAfterFirst

\* C1, amended: in a fresh process whose index probe reports not-found, the
\* first call issues HEAD and then the create PUT.  If the create does not
\* fail, the index flag is set, a document PUT of that call comes after both
\* (it is issued for a record with icao24 unless data-view provisioning
\* raises), and a later call issues no index probe and no create.  If the
\* create fails, the call ends there without a document PUT, the flag stays
\* unset and the next call probes the index again.
C1_Amended ==
  ProbeSaidMissing =>
    /\ (Len(FirstCalls) >= 2 \/ FirstEnded) =>
         (Len(FirstCalls) >= 2 /\ IsIndexCreate(FirstCalls[2]))
    /\ \A i \in 1..Len(FirstCalls) :
         IsDocumentPut(FirstCalls[i]) => (i > 2 /\ FirstCalls[2].answer = "ok")
    /\ (Len(FirstCalls) >= 2 /\ FirstCalls[2].answer = "ok") =>
         /\ FirstEnded => index_created
         /\ NoIndexProvisioningAfterFirst
         /\ \A t \in Threads :
              (serving[t] = 1 /\ Ended(t) /\ HasId(event[t])) =>
                ((\E i \in 3..Len(FirstCalls) : IsDocumentPut(FirstCalls[i]))
                   <=> outcome[t].cls # "AttributeError")
    /\ (Len(FirstCalls) >= 2 /\ FirstCalls[2].answer # "ok") =>
         /\ Len(FirstCalls) = 2
         /\ invocations = 1 => ~index_created
         /\ CallsOf(2) # << >> => IsIndexProbe(CallsOf(2)[1])

\* C1 witness: HEAD (not found), create, data-view calls and the document PUT
\* in the first call, then a second call that went straight to its document PUT
C1_Witness ==
  /\ ProbeSaidMissing
  /\ Len(FirstCalls) >= 3
  /\ IsIndexCreate(FirstCalls[2])
  /\ IsDocumentPut(FirstCalls[Len(FirstCalls)])
  /\ invocations = 2
  /\ Ended(MainThread)
  /\ outcome[MainThread].statusCode = 201
  /\ Len(CallsOf(2)) = 1
  /\ IsDocumentPut(CallsOf(2)[1])

\* the reply to a data-view request is a failure other than a connectivity
\* failure: a timeout raised by the call, or an error status on the create
DataViewRequestFailure(c, reply) ==
  \/ (IsDataViewProbe(c) \/ IsDataViewCreate(c)) /\ IsTimeout(reply.exc)
  \/ IsDataViewCreate(c) /\ reply.exc = "none" /\ ~Is2xx(reply)

\* C2, as stated: a data-view request failure other than a connectivity
\* failure is absorbed: the invocation does not raise out of
\* ensure_data_view_exists and the data-view flag is set.
C2_Claim ==
  \A t \in Threads :
    (/\ OwnCalls(t) # << >>
     /\ DataViewRequestFailure(OwnCalls(t)[Len(OwnCalls(t))], response[t])
     /\ pc[t] \in {"idle", "prepare", "data_view_set"}) =>
      /\ outcome[t].kind # "raise"
      /\ pc[t] # "data_view_set" => data_view_created

\* a data-view call of this invocation failed with a connectivity failure
DataViewConnectivityFailure(cs) ==
  \E i \in 1..Len(cs) :
    /\ IsDataViewProbe(cs[i]) \/ IsDataViewCreate(cs[i])
    /\ IsConnectionError(cs[i].answer)

\* C3: when the data-view probe or create fails with a connectivity failure,
\* the flag is set, the call still issues the document PUT for a record with
\* icao24 and returns the 201 result when that PUT succeeds, and no later
\* invocation probes or creates the data view.
C3_DataViewConnectivityAbsorbed ==
  /\ \A t \in Threads :
       DataViewConnectivityFailure(OwnCalls(t)) =>
         /\ data_view_created
         /\ outcome[t].cls # "AttributeError"
         /\ (Ended(t) /\ HasId(event[t])) =>
              /\ sent[t].put
              /\ IsDocumentPut(OwnCalls(t)[Len(OwnCalls(t))])
              /\ (Is2xx(response[t]) /\ response[t].body.json) =>
                   /\ outcome[t].kind = "return"
                   /\ outcome[t].statusCode = 201
  /\ \A i, j \in 1..Len(calls) :
       (/\ IsDataViewProbe(calls[i]) \/ IsDataViewCreate(calls[i])
        /\ IsConnectionError(calls[i].answer)
        /\ calls[j].inv > calls[i].inv) =>
         ~IsDataViewProbe(calls[j]) /\ ~IsDataViewCreate(calls[j])

\* C3 witness: the data-view create could not connect, the document was
\* indexed all the same, and a second invocation has run
C3_Witness ==
  /\ \E i \in 1..Len(FirstCalls) :
       IsDataViewCreate(FirstCalls[i]) /\ IsConnectionError(FirstCalls[i].answer)
  /\ \E i \in 1..Len(FirstCalls) : IsDocumentPut(FirstCalls[i])
  /\ invocations = 2
  /\ Ended(MainThread)
  /\ outcome[MainThread].statusCode = 201

\* the reply to an index provisioning request is an HTTP-level failure other
\* than a connectivity failure
IndexRequestFailure(c, reply) ==
  \/ IsIndexProbe(c) /\ IsErrorStatus(reply) /\ reply.status # 404
  \/ IsIndexProbe(c) /\ IsTimeout(reply.exc)
  \/ IsIndexCreate(c) /\ reply.exc = "none" /\ ~Is2xx(reply)

\* C4, as stated: an HTTP-level failure of the index probe or create other
\* than a connectivity failure aborts the call: it raises, the index flag is
\* not set and no document PUT is issued.
C4_Claim ==
  \A t \in Threads :
    (/\ OwnCalls(t) # << >>
     /\ IndexRequestFailure(OwnCalls(t)[Len(OwnCalls(t))], response[t])) =>
      /\ pc[t] = "idle"
      /\ outcome[t].kind = "raise"
      /\ ~index_created
      /\ ~sent[t].put

\* C5: a connectivity failure of the index probe ends the call with the
\* "Connection error" failure: the probe is the call's last and only request
\* (no data-view probe, no document PUT), the index flag stays unset, and the
\* next invocation probes the index again.
C5_ProbeConnectivityAborts ==
  \A k \in 1..invocations :
    LET cs == CallsOf(k)
    IN (cs # << >> /\ IsIndexProbe(cs[1]) /\ IsConnectionError(cs[1].answer)) =>
         /\ Len(cs) = 1
         /\ \A t \in Threads :
              serving[t] = k =>
                /\ outcome[t] = Failure("Exception", "Connection error: ", "ConnectionError")
                /\ pc[t] = "idle"
                /\ ~sent[t].put
                /\ ~index_created
         /\ CallsOf(k + 1) # << >> => IsIndexProbe(CallsOf(k + 1)[1])

\* C5 witness: the first call's probe could not connect and the second call
\* has probed again
C5_Witness ==
  /\ Len(FirstCalls) = 1
  /\ IsIndexProbe(FirstCalls[1])
  /\ IsConnectionError(FirstCalls[1].answer)
  /\ CallsOf(2) # << >>
  /\ IsIndexProbe(CallsOf(2)[1])

\* C6, as stated: for a record without icao24, in every process state, the
\* call returns the 200 skip result, raises nothing and issues no write call.
C6_Original ==
  \A t \in Threads :
    (Ended(t) /\ ~HasId(event[t])) =>
      /\ outcome[t] = Skipped
      /\ \A i \in 1..Len(OwnCalls(t)) : ~IsWrite(OwnCalls(t)[i])

\* C6, amended: for a record without icao24 the call never issues a document
\* PUT; its only requests are provisioning requests (the index and data-view
\* probes and creates); it returns the 200 skip result exactly when both
\* ensure steps returned (both flags are then set), and otherwise ends with
\* the failure an ensure step raised; a call that issues no request at all
\* returns the skip result.
C6_Amended ==
  \A t \in Threads :
    (Ended(t) /\ ~HasId(event[t])) =>
      /\ ~sent[t].put
      /\ \A i \in 1..Len(OwnCalls(t)) :
           \/ IsIndexProbe(OwnCalls(t)[i]) \/ IsIndexCreate(OwnCalls(t)[i])
           \/ IsDataViewProbe(OwnCalls(t)[i]) \/ IsDataViewCreate(OwnCalls(t)[i])
      /\ outcome[t] = Skipped <=> (index_created /\ data_view_created)
      /\ outcome[t] # Skipped =>
           /\ outcome[t].kind = "raise"
           /\ OwnCalls(t) # << >>
           /\ OwnCalls(t)[Len(OwnCalls(t))].answer \in RequestErrors \cup {"HTTPError"}
      /\ outcome[t].kind = "return" => outcome[t].statusCode = 200

\* C6 witness: a record without icao24 in a fresh process whose index is
\* absent: the index is created, the record is skipped
C6_Witness ==
  \E t \in Threads :
    /\ Ended(t)
    /\ ~HasId(event[t])
    /\ outcome[t] = Skipped
    /\ \E i \in 1..Len(OwnCalls(t)) : IsIndexCreate(OwnCalls(t)[i])

\* C7: the document sent never has a latitude or longitude entry, and has
\* location = {lat: latitude, lon: longitude} if and only if both were
\* present and not None in the record handed to the call.
C7_LocationDerived ==
  \A t \in Threads :
    sent[t].put =>
      LET latitude == DictGet(event[t], "latitude")
          longitude == DictGet(event[t], "longitude")
          doc == sent[t].json
      IN /\ "latitude" \notin DOMAIN doc
         /\ "longitude" \notin DOMAIN doc
         /\ ("location" \in DOMAIN doc /\ doc["location"] = GeoPoint(latitude, longitude))
              <=> (/\ "latitude" \in DOMAIN event[t] /\ latitude # PyNone
                   /\ "longitude" \in DOMAIN event[t] /\ longitude # PyNone)

\* C7 witness: a record with latitude 0.0 and a longitude was sent with its
\* location
C7_Witness ==
  \E t \in Threads :
    /\ sent[t].put
    /\ DictGet(event[t], "latitude") = PyFloat(0)
    /\ "location" \in DOMAIN sent[t].json
    /\ sent[t].json["location"] = GeoPoint(PyFloat(0), PyFloat(8))

HttpErrorOutcome(t) ==
  /\ outcome[t].kind = "raise"
  /\ outcome[t].marker = "HTTP error: "
  /\ outcome[t].text = response[t].body.text

C9_SuccessResult ==
  \A t \in Threads :
    (Ended(t) /\ outcome[t].kind = "return" /\ outcome[t] # Skipped) =>
      /\ Cardinality({i \in 1..Len(OwnCalls(t)) : IsDocumentPut(OwnCalls(t)[i])}) = 1
      /\ \A i \in 1..Len(OwnCalls(t)) :
           IsDocumentPut(OwnCalls(t)[i]) =>
             OwnCalls(t)[i].url.id = DictGet(event[t], "icao24").s
      /\ sent[t].url.id = DictGet(event[t], "icao24").s
      /\ HasId(event[t])
      /\ outcome[t].statusCode = 201
      /\ outcome[t].id = DictGet(event[t], "icao24")
      /\ outcome[t].result = response[t].body.result

\* C9 witness: the record c0 was indexed and the backend reported "updated"
C9_Witness ==
  \E t \in Threads :
    /\ Ended(t)
    /\ outcome[t].statusCode = 201
    /\ outcome[t].id = PyStr(<<"c", "0">>)
    /\ outcome[t].result = PyStr(<<"updated">>)

\* the number a truthy raw value of the model stands for
NumberOf(raw) ==
  CASE raw = PyStr(<<" ", "1", "2">>) -> 12
    [] raw = PyBool(TRUE) -> 1
    [] OTHER -> raw.n

\* None, zero, False and the empty string
NullOrFalsy(raw) == raw = PyNone \/ (raw.n = 0 /\ raw.s = << >>)

\* raw values float() has no number for
NotANumber(raw) == raw = PyStr(<<"x">>) \/ raw.t = "list"

\* the for loop raised on the state vector at the cursor
MappingRaised ==
  /\ fetch_pc = "done"
  /\ fetch_outcome.kind = "raise"
  /\ data.kind = "object"
  /\ HasStates(data)

\* C10: every numeric field of a produced record is None when the raw value
\* at its position is None or falsy, and otherwise the raw value as a float;
\* a None raw value never becomes zero, and the mapping of a vector raises
\* only for a position that is missing or holds a truthy value that is not a
\* number, never for a None.
C10_NumericFields ==
  /\ \A i \in 1..Len(flight_list) :
       \A f \in 1..Len(NumericFields) :
         LET raw == data.list[i][NumericFields[f].index + 1]
             out == flight_list[i][NumericFields[f].field]
         IN /\ NullOrFalsy(raw) => out = PyNone
            /\ raw = PyNone => out # PyFloat(0)
            /\ ~NullOrFalsy(raw) => out = PyFloat(NumberOf(raw))
  /\ MappingRaised =>
       LET flight_state == data.list[cursor]
       IN \/ Len(flight_state) < 14
          \/ \E f \in 1..Len(NumericFields) :
               NotANumber(flight_state[NumericFields[f].index + 1])

\* C10 witness: a returned record whose raw track was None and is None, whose
\* raw latitude 0.0 became None, and whose longitude was read from " 12"
C10_Witness ==
  /\ fetch_outcome.kind = "return"
  /\ \E i \in 1..Len(fetch_outcome.list) :
       /\ data.list[i][11] = PyNone
       /\ fetch_outcome.list[i].true_track_deg = PyNone
       /\ data.list[i][7] = PyFloat(0)
       /\ fetch_outcome.list[i].latitude = PyNone
       /\ data.list[i][6] = PyStr(<<" ", "1", "2">>)
       /\ fetch_outcome.list[i].longitude = PyFloat(12)

\* the raw states sequence of the parsed response (empty when there is none)
RawStates == IF data.kind = "object" /\ data.states = "list" THEN data.list ELSE << >>

\* the record of a state vector whose mapped positions are all null
AllNullRecord ==
  [callsign |-> PyNone, origin_country |-> PyNone, longitude |-> PyNone,
   latitude |-> PyNone, baro_altitude_m |-> PyNone, on_ground |-> PyBool(FALSE),
   velocity_mps |-> PyNone, true_track_deg |-> PyNone, vertical_rate_mps |-> PyNone,
   geo_altitude_m |-> PyNone]

\* the callsign a raw value of the model becomes
CallsignOf(raw) ==
  CASE raw = PyStr(<<"T", "1", " ">>) -> PyStr(<<"T", "1">>)
    [] raw = PyInt(7) -> PyStr(<<"7">>)
    [] raw = PyStr(<<" ">>) -> PyStr(<< >>)
    [] OTHER -> PyNone

\* C11: the list fetch returns has one record per element of the raw states
\* sequence, in the original order: it is as long as the input, its i-th
\* record is the mapping of the i-th raw vector (while the loop runs, the
\* records made so far are those of the vectors before the cursor), equal
\* vectors give equal records that are both kept, and a vector whose mapped
\* positions are all null gives a record whose fields are None (on_ground
\* False).
C11_OnePerVectorInOrder ==
  /\ fetch_pc = "loop" => Len(flight_list) = cursor - 1
  /\ fetch_pc \in {"loop", "return"} =>
       \A i \in 1..Len(flight_list) :
         /\ i <= Len(RawStates)
         /\ flight_list[i] = MapFlight(RawStates[i])
         /\ flight_list[i].callsign = CallsignOf(RawStates[i][2])
         /\ RawStates[i] = NullVector => flight_list[i] = AllNullRecord
  /\ fetch_outcome.kind = "return" =>
       /\ fetch_outcome.list = flight_list
       /\ Len(fetch_outcome.list) = Len(RawStates)
       /\ \A i \in 1..Len(RawStates) :
            fetch_outcome.list[i] = MapFlight(RawStates[i])

\* C11 witness: a returned list of two records, the first that of the
\* all-null vector, the second that of a vector with a callsign
C11_Witness ==
  /\ fetch_outcome.kind = "return"
  /\ Len(fetch_outcome.list) = 2
  /\ RawStates[1] = NullVector
  /\ fetch_outcome.list[1] = AllNullRecord
  /\ RawStates[2] = StateVector(0)
  /\ fetch_outcome.list[2].callsign = PyStr(<<"T", "1">>)

\* the parsed response is an object without a states key, or with a states
\* value that is null or the empty list
NoStates ==
  /\ data.kind = "object"
  /\ data.states \in {"absent", "null"} \/ (data.states = "list" /\ data.list = << >>)

\* C12: when the parsed telemetry response has no states key, or a states
\* value that is null or empty, the loop is not entered, nothing is raised
\* and fetch returns the empty list.
C12_NoStatesEmptyList ==
  NoStates =>
    /\ fetch_pc \in {"test", "return", "done"}
    /\ flight_list = << >>
    /\ fetch_outcome.kind # "raise"
    /\ fetch_pc = "done" => fetch_outcome = FetchReturned(<< >>)

\* C12 witness: a response whose states is null was answered with the empty
\* list
C12_Witness ==
  /\ data.kind = "object"
  /\ data.states = "null"
  /\ fetch_pc = "done"
  /\ fetch_outcome.kind = "return"
  /\ fetch_outcome.list = << >>

\* the fetch has ended by raising a failure with this message marker
FetchFailedWith(marker) ==
  /\ fetch_outcome.kind = "raise"
  /\ fetch_outcome.failure.kind = "raise"
  /\ fetch_outcome.failure.cls = "Exception"
  /\ fetch_outcome.failure.marker = marker
  /\ fetch_outcome.list = << >>

\* a raw vector of the model that cannot be mapped: cut short, or with a
\* text or a list where a number belongs
Unmappable(flight_state) == flight_state \in {ShortVector, TextVector, ListVector}

\* C13: a fetch that has ended after a timeout of the telemetry call failed
\* with "Request timed out"; after another transport failure or an error
\* status it failed with "API request failed"; when a record of the states
\* sequence cannot be mapped it failed with "An unexpected error occurred",
\* whatever records were mapped before it; a body that is not JSON makes it
\* fail too; and a fetch either fails and returns nothing, or returns the
\* record of every raw vector.
C13_FailuresClassified ==
  fetch_pc = "done" =>
    /\ fetch_outcome.kind \in {"raise", "return"}
    /\ fetch_response.exc \in {"ReadTimeout", "ConnectTimeout"} =>
         /\ FetchFailedWith("Request timed out")
         /\ flight_list = << >>
    /\ (\/ fetch_response.exc = "ConnectionError"
        \/ fetch_response.exc = "none" /\ fetch_response.status \in 400..599) =>
         /\ FetchFailedWith("API request failed: ")
         /\ flight_list = << >>
    /\ (\E i \in 1..Len(RawStates) : Unmappable(RawStates[i])) =>
         FetchFailedWith("An unexpected error occurred: ")
    /\ (fetch_response.exc = "none" /\ fetch_response.data.kind = "invalid"
          /\ fetch_response.status \notin 400..599) =>
         \/ FetchFailedWith("API request failed: ")
         \/ FetchFailedWith("An unexpected error occurred: ")
    /\ fetch_outcome.kind = "return" =>
         /\ fetch_response.exc = "none"
         /\ Len(fetch_outcome.list) = Len(RawStates)
    /\ fetch_outcome.kind = "raise" => fetch_outcome.list = << >>

\* C13 witness: the first vector was mapped, the second could not be, and
\* the fetch failed with the generic failure and no list
C13_Witness ==
  /\ fetch_pc = "done"
  /\ Len(RawStates) = 2
  /\ Len(flight_list) = 1
  /\ RawStates[2] = TextVector
  /\ FetchFailedWith("An unexpected error occurred: ")
  /\ fetch_outcome.failure.text = "ValueError"

\* ensure_index_exists returned in the invocation with these calls: its probe
\* was answered and did not say not-found, or the create that followed did
\* not fail
IndexEnsureReturned(cs) ==
  \E i \in 1..Len(cs) :
    /\ IsIndexProbe(cs[i])
    /\ \/ cs[i].answer = "ok"
       \/ /\ cs[i].answer = "not found"
          /\ i < Len(cs)
          /\ IsIndexCreate(cs[i + 1])
          /\ cs[i + 1].answer = "ok"

\* a data-view request of the invocation raised an exception that carries no
\* response and is no connectivity failure
DataViewEnsureRaised(cs) ==
  \E i \in 1..Len(cs) :
    /\ IsDataViewProbe(cs[i]) \/ IsDataViewCreate(cs[i])
    /\ cs[i].answer = "ReadTimeout"

\* the invocation ended with a failure raised by an ensure step
EnsureStepRaised(o) ==
  /\ o.kind = "raise"
  /\ \/ o.marker \in {"Connection error: ", "Error checking/creating index: "}
     \/ o.cls = "AttributeError"

\* C14, as stated: once the first call has ended, both flags are set,
\* whatever the backends answered.
C14_Original == FirstEnded => (index_created /\ data_view_created)

\* the flags right after the first call, before a second one starts
C14_AfterFirstCall ==
  (invocations = 1 /\ FirstEnded) =>
    /\ index_created <=> IndexEnsureReturned(FirstCalls)
    /\ data_view_created <=>
         (IndexEnsureReturned(FirstCalls) /\ ~DataViewEnsureRaised(FirstCalls))
    /\ \A t \in Threads :
         serving[t] = 1 =>
           ((index_created /\ data_view_created) <=> ~EnsureStepRaised(outcome[t]))

\* a step changes a flag only from unset to set
C14_OnlySet ==
  /\ index_created' # index_created => (~index_created /\ index_created')
  /\ data_view_created' # data_view_created => (~data_view_created /\ data_view_created')

\* C14, amended: each flag goes from unset to set at most once in a process
\* and never back.  After the first call the index flag is set exactly when
\* ensure_index_exists returned (the probe was answered and, on not-found,
\* the create did not fail), the data-view flag exactly when in addition no
\* data-view request timed out; so both are set exactly when no ensure step
\* raised, skipped record or not.
C14_Amended == [](C14_AfterFirstCall) /\ [][C14_OnlySet]_vars

\* C14 witness: the first call could not reach the index and left both flags
\* unset; the second call has set them
C14_Witness ==
  /\ Len(FirstCalls) = 1
  /\ IsConnectionError(FirstCalls[1].answer)
  /\ invocations = 2
  /\ Ended(MainThread)
  /\ index_created
  /\ data_view_created

\* a step keeps a set flag set, and the request it issues, if any, is no
\* probe and no create of a resource whose flag is set
C15_Step ==
  /\ index_created => index_created'
  /\ data_view_created => data_view_created'
  /\ calls' # calls =>
       LET c == calls'[Len(calls')]
       IN /\ Len(calls') = Len(calls) + 1
          /\ index_created => (~IsIndexProbe(c) /\ ~IsIndexCreate(c))
          /\ data_view_created => (~IsDataViewProbe(c) /\ ~IsDataViewCreate(c))

\* C15: in a sequence of calls in one process, whatever the backends answer,
\* a flag that is set stays set, and while a flag is set no existence probe
\* and no create request for its resource is issued.
C15_FlagsStick == [][C15_Step]_vars

\* C15 witness: after a first call that provisioned both resources and sent
\* its document, a second call skipped its record without any request
C15_Witness ==
  /\ invocations = 2
  /\ Ended(MainThread)
  /\ outcome[MainThread] = Skipped
  /\ CallsOf(2) = << >>
  /\ index_created
  /\ data_view_created
  /\ \E i \in 1..Len(FirstCalls) : IsIndexProbe(FirstCalls[i])
  /\ \E i \in 1..Len(FirstCalls) : IsDataViewProbe(FirstCalls[i])
  /\ IsDocumentPut(FirstCalls[Len(FirstCalls)])

IsIndexProvisioning(c) == IsIndexProbe(c) \/ IsIndexCreate(c)
IsDataViewProvisioning(c) == IsDataViewProbe(c) \/ IsDataViewCreate(c)

\* thread t is inside ensure_data_view_exists
InDataViewEnsure(t) ==
  pc[t] \in {"ensure_data_view", "data_view_get", "data_view_post", "data_view_set"}

\* C16: the document PUT is issued only with both flags set.  In every call
\* ensure_data_view_exists starts with the index flag set; the icao24 check
\* and the document PUT come with both flags set; the call's requests are
\* the index requests, then the data-view requests, then the document PUT as
\* the last one; and a call in which an ensure step raised sent no document.
C16_UpsertAfterProvisioning ==
  \A t \in Threads :
    LET cs == OwnCalls(t)
    IN /\ InDataViewEnsure(t) => index_created
       /\ pc[t] \in {"prepare", "put"} => (index_created /\ data_view_created)
       /\ sent[t].put => (index_created /\ data_view_created)
       /\ \A i, j \in 1..Len(cs) :
            i < j => /\ ~IsDocumentPut(cs[i])
                     /\ ~(IsDataViewProvisioning(cs[i]) /\ IsIndexProvisioning(cs[j]))
       /\ (\E i \in 1..Len(cs) : IsDocumentPut(cs[i])) <=> sent[t].put
       /\ (Ended(t) /\ EnsureStepRaised(outcome[t])) => ~sent[t].put

\* C16 witness: a call that created the index, then the data view, and then
\* sent its document
C16_Witness ==
  \E t \in Threads :
    /\ sent[t].put
    /\ Len(OwnCalls(t)) = 5
    /\ IsIndexCreate(OwnCalls(t)[2])
    /\ IsDataViewCreate(OwnCalls(t)[4])
    /\ OwnCalls(t)[4].answer = "ok"
    /\ IsDocumentPut(OwnCalls(t)[5])
    /\ index_created
    /\ data_view_created

\* call i of the log is a create whose invocation probed before it and was
\* told not-found
CreateAfterNotFound(i, IsProbe(_)) ==
  \E a \in 1..(i - 1) :
    /\ calls[a].inv = calls[i].inv
    /\ IsProbe(calls[a])
    /\ calls[a].answer = "not found"

\* two invocations on different threads each probed and were told not-found
\* before either of them issued its create, and then both issued it
BothCreated(IsProbe(_), IsCreate(_)) ==
  \E a, b, i, j \in 1..Len(calls) :
    /\ a < b /\ b < i /\ i < j
    /\ IsProbe(calls[a]) /\ calls[a].answer = "not found"
    /\ IsProbe(calls[b]) /\ calls[b].answer = "not found"
    /\ IsCreate(calls[i]) /\ IsCreate(calls[j])
    /\ calls[a].thread # calls[b].thread
    /\ calls[i].thread # calls[j].thread
    /\ {calls[a].inv, calls[b].inv} = {calls[i].inv, calls[j].inv}
    /\ calls[i].inv # calls[j].inv

\* C17: nothing makes the check-then-act sequences mutually exclusive.  With
\* invocations interleaved in one process, a thread that stands before the
\* flag test with the flag unset can always go on to the probe, a thread
\* that stands before its probe can always issue it and be told not-found,
\* and a thread told not-found can always issue the create, wherever the
\* other thread stands; the same for the data view.  Every create is issued
\* by an invocation whose own probe said not-found.
C17_NoMutualExclusion ==
  /\ \A t \in Threads :
       /\ (pc[t] = "ensure_index" /\ ~index_created) =>
            ENABLED (EnsureIndexCheck(t) /\ pc'[t] = "index_head")
       /\ pc[t] = "index_head" => ENABLED EnsureIndexHead(t, Reply(404, PlainBody))
       /\ pc[t] = "index_create" => ENABLED EnsureIndexCreate(t, Reply(200, PlainBody))
       /\ (pc[t] = "ensure_data_view" /\ ~data_view_created) =>
            ENABLED (EnsureDataViewCheck(t) /\ pc'[t] = "data_view_get")
       /\ pc[t] = "data_view_get" => ENABLED EnsureDataViewGet(t, Reply(404, PlainBody))
       /\ pc[t] = "data_view_post" => ENABLED EnsureDataViewPost(t, Reply(200, PlainBody))
  /\ \A i \in 1..Len(calls) :
       /\ IsIndexCreate(calls[i]) => CreateAfterNotFound(i, IsIndexProbe)
       /\ IsDataViewCreate(calls[i]) => CreateAfterNotFound(i, IsDataViewProbe)

\* C17 witness: in a fresh process two interleaved invocations both probed
\* the index and were told not-found, both issued the create PUT, and then
\* did the same with the data view
C17_Witness ==
  /\ BothCreated(IsIndexProbe, IsIndexCreate)
  /\ BothCreated(IsDataViewProbe, IsDataViewCreate)
  /\ IsIndexProbe(calls[1])
  /\ IsIndexProbe(calls[2])

\* thread t serves a record of the Fetcher's list as the Fetcher returned it
ServesFetchedRecord(t) == serving[t] >= 1 /\ event[t] \in FetchedRecords

\* no record the Fetcher has made carries an icao24 entry
NoRecordHasId ==
  /\ \A i \in 1..Len(flight_list) : "icao24" \notin DOMAIN flight_list[i]
  /\ \A record \in FetchedRecords :
       /\ "icao24" \notin DOMAIN record
       /\ DictGet(record, "icao24") = PyNone

\* C18, as stated: no fetched record carries icao24, and an Indexer call on
\* an unmodified fetched record always ends in the skipped result.
C18_Original ==
  /\ NoRecordHasId
  /\ \A t \in Threads :
       (ServesFetchedRecord(t) /\ Ended(t)) => outcome[t] = Skipped

\* C18, amended: no fetched record carries icao24, for any raw vector; an
\* Indexer call on an unmodified fetched record never issues a document PUT
\* (its only requests are provisioning requests), and it ends in the skipped
\* result unless an ensure step raised, in which case it ends with that
\* failure.
C18_Amended ==
  /\ NoRecordHasId
  /\ \A t \in Threads :
       ServesFetchedRecord(t) =>
         /\ pc[t] # "put"
         /\ ~sent[t].put
         /\ \A i \in 1..Len(OwnCalls(t)) :
              IsIndexProvisioning(OwnCalls(t)[i]) \/ IsDataViewProvisioning(OwnCalls(t)[i])
         /\ Ended(t) =>
              /\ outcome[t] = Skipped \/ EnsureStepRaised(outcome[t])
              /\ outcome[t] = Skipped <=> (index_created /\ data_view_created)

\* C18 witness: the record of a full state vector, with callsign and
\* coordinates, was fetched, handed to the Indexer as it was, and skipped
\* after the index had been created
C18_Witness ==
  /\ fetch_outcome.kind = "return"
  /\ ServesFetchedRecord(MainThread)
  /\ event[MainThread] = MapFlight(StateVector(0))
  /\ event[MainThread].callsign = PyStr(<<"T", "1">>)
  /\ Ended(MainThread)
  /\ outcome[MainThread] = Skipped
  /\ \E i \in 1..Len(OwnCalls(MainThread)) : IsIndexCreate(OwnCalls(MainThread)[i])

\* the document a record is stored as: its entries other than latitude and
\* longitude, and a location of the two when both are there and not None
Transformed(record) ==
  LET located == /\ "latitude" \in DOMAIN record /\ record["latitude"] # PyNone
                 /\ "longitude" \in DOMAIN record /\ record["longitude"] # PyNone
      keys == ((DOMAIN record) \ {"latitude", "longitude"})
                \cup (IF located THEN {"location"} ELSE {})
  IN [k \in keys |->
        IF k = "location" /\ located
          THEN [t |-> "dict", lat |-> record["latitude"], lon |-> record["longitude"]]
          ELSE record[k]]

\* C19: against a backend that overwrites on PUT to an explicit id, as long
\* as every call that sent its document returned 201, the index holds at
\* most one document per icao24, one for every icao24 a call returned 201
\* for and no other, stored under that icao24 and equal to the transformed
\* record of the last such call; so a record indexed twice is stored as it
\* is when indexed once.
C19_LastWriteWins ==
  ~failed =>
    /\ \A d1, d2 \in store :
         (d1.id = d2.id \/ DictGet(d1.doc, "icao24") = DictGet(d2.doc, "icao24")) => d1 = d2
    /\ \A l1, l2 \in latest : l1.id = l2.id => l1 = l2
    /\ \A d \in store :
         \E l \in latest :
           /\ l.id = PyStr(d.id)
           /\ DictGet(d.doc, "icao24") = l.id
           /\ d.doc = Transformed(l.event)
    /\ \A l \in latest : \E d \in store : PyStr(d.id) = l.id
    /\ \A l \in latest :
         l.repeated => \A d \in store : PyStr(d.id) = l.id => d.doc = Transformed(l.event)

\* C19 witness: two calls for the same aircraft returned 201, the second with
\* a new position; the index holds one document, with the new position, next
\* to no other
C19_Witness ==
  /\ ~failed
  /\ invocations = 2
  /\ Ended(MainThread)
  /\ outcome[MainThread].statusCode = 201
  /\ outcome[MainThread].result = PyStr(<<"updated">>)
  /\ DictGet(event[MainThread], "latitude") = PyFloat(0)
  /\ \E l \in latest : l.id = PyStr(<<"a", "8">>) /\ ~l.repeated
  /\ Cardinality(store) = 1
  /\ \A d \in store :
       /\ d.id = <<"a", "8">>
       /\ d.doc["location"] = GeoPoint(PyFloat(0), PyFloat(8))

====
